---- MODULE Spec2Model ----
(***************************************************************************)
(* Verification model of the air-quality resolution-and-scoring pipeline   *)
(* of auaguard_ai: the OpenAQ client (retry loop, nearest-sensor scan),    *)
(* the risk engine (AQI conversion, risk index), the snapshot flow with   *)
(* its stale-cache fallback (one request at a time, and concurrent calls), *)
(* and the outlook simulation.                                             *)
(*                                                                         *)
(* Numbers.  Concentrations are integers in hundredths of a ug/m3          *)
(* (12.05 ug/m3 is 1205).  Sub-scores in [0,1] are integers in units of    *)
(* 1/Scale.  The source computes in binary floating point; the model       *)
(* computes the exact rational value.  The two can round differently only  *)
(* when the exact value is a tie (x.5), where the float may fall on either *)
(* side: round() of a tie is therefore either neighbour, and a function    *)
(* that rounds is the set of the results it can return.                    *)
(*                                                                         *)
(* An optional value (Python None) is the empty sequence, a present value  *)
(* v is <<v>>.                                                             *)
(***************************************************************************)
EXTENDS Integers, Sequences, FiniteSets, TLC

VARIABLES
    pm, aqi,                          \* aqi_from_pm25: argument, returned pair
    pm25, stag, trend, seas, risk,    \* risk_index: arguments, returned score
    api_key,                          \* OpenAQClient.api_key is non-empty
    hpc,                              \* _get_json: "idle", "loop", "returned", "raised"
    attempt,                          \* _get_json: loop variable of range(3)
    last_err,                         \* _get_json: last_err
    sent,                             \* responses to the HTTP requests of this call
    ret,                              \* _get_json: returned body or raised message
    locations,                        \* pm25_latest_near: locations, after the sort
    provider,                         \* the list as locations_near returned it
    rpc,                              \* pm25_latest_near: "idle", "scan", "returned", "raised"
    idx,                              \* pm25_latest_near: position of the loop in locations
    scan_err,                         \* pm25_latest_near: last_err
    fetched,                          \* the location_sensors calls made, with their outcome
    found,                            \* pm25_latest_near: returned dict or raised message
    ow,                               \* views_api.ow is an OpenWeatherClient (not None)
    cache,                            \* django cache: key -> None or Some([value, expires])
    now,                              \* wall clock, seconds
    month,                            \* datetime.now().month
    stored,                           \* per key, the last snapshot a successful fetch returned
    req,                              \* the last request: arguments, upstream answers, response
    opc,                              \* aq_outlook: "idle", "loop", "returned", "raised"
    given,                            \* the upstream answers the outlook's snapshot was built from
    outlook_snap,                     \* aq_outlook: snap
    hours_arg,                        \* aq_outlook: the "hours" query parameter
    hours,                            \* aq_outlook: hours
    hourly,                           \* aq_outlook: hourly
    pm_now,                           \* aq_outlook: pm_now
    pm_sim,                           \* aq_outlook: pm
    step,                             \* aq_outlook: i
    results,                          \* aq_outlook: results
    first_run,                        \* the results of the run before this one, same inputs
    offered,                          \* _pick_best_pm25_sensor: sensors
    picked,                           \* _pick_best_pm25_sensor: returned sensor
    calls,                            \* concurrent _current_snapshot calls: position and locals
    writes                            \* the snapshots the cache.set calls have stored, per key

aqiVars == <<pm, aqi>>
riskVars == <<pm25, stag, trend, seas, risk>>
httpVars == <<api_key, hpc, attempt, last_err, sent, ret>>
scanVars == <<locations, provider, rpc, idx, scan_err, fetched, found>>
snapVars == <<ow, cache, now, month, stored, req>>
simVars == <<opc, given, outlook_snap, hours_arg, hours, hourly, pm_now, pm_sim, step, results, first_run>>
pickVars == <<offered, picked>>
raceVars == <<calls, writes>>
extVars == <<simVars, pickVars, raceVars>>
vars == <<aqiVars, riskVars, httpVars, scanVars, snapVars, extVars>>

None == << >>
Some(v) == <<v>>
IsSome(o) == o # << >>
Val(o) == o[1]

\* One unit of a [0,1] score is 1/Scale: pm/15/4 of one hundredth of a ug/m3.
Scale == 100 * 15 * 4

Abs(x) == IF x < 0 THEN -x ELSE x
Min2(a, b) == IF a <= b THEN a ELSE b
Max2(a, b) == IF a >= b THEN a ELSE b

\* Python round(num/den), den > 0: the nearest integer; either neighbour of an
\* exact tie.
PyRound(num, den) ==
    LET q == num \div den
        r == num - q * den
    IN  IF 2 * r < den THEN {q}
        ELSE IF 2 * r > den THEN {q + 1}
        ELSE {q, q + 1}

\* int(x): truncation toward zero (used by mutants of the rounding).
PyTrunc(num, den) == IF num >= 0 THEN num \div den ELSE -((-num) \div den)

(***************************************************************************)
(* risk_engine.py                                                          *)
(***************************************************************************)

\* Breakpoints (c_low, c_high, i_low, i_high, label), concentrations in hundredths.
_PM25_AQI ==
    << <<0,     1200,  0,   50,  "Good">>,
       <<1210,  3540,  51,  100, "Moderate">>,
       <<3550,  5540,  101, 150, "Unhealthy for Sensitive Groups">>,
       <<5550,  15040, 151, 200, "Unhealthy">>,
       <<15050, 25040, 201, 300, "Very Unhealthy">>,
       <<25050, 50040, 301, 500, "Hazardous">> >>

\* The row the for-loop returns from: the first one with c_low <= pm <= c_high.
MatchedRows(v) == {i \in 1..Len(_PM25_AQI) : _PM25_AQI[i][1] <= v /\ v <= _PM25_AQI[i][2]}
FirstRow(v) == CHOOSE i \in MatchedRows(v) : \A j \in MatchedRows(v) : i <= j

aqi_from_pm25_trunc(p) ==
    IF ~IsSome(p) THEN {<<0, "-">>}
    ELSE IF MatchedRows(Val(p)) = {} THEN {<<500, "Hazardous">>}
    ELSE LET row == _PM25_AQI[FirstRow(Val(p))]
         IN  {<<PyTrunc((row[4] - row[3]) * (Val(p) - row[1]) + row[3] * (row[2] - row[1]),
                        row[2] - row[1]), row[5]>>}

\* The pairs (index, label) the call can return.
aqi_from_pm25(p) ==
    IF ~IsSome(p) THEN {<<0, "-">>}
    ELSE IF MatchedRows(Val(p)) = {} THEN {<<500, "Hazardous">>}
    ELSE LET row == _PM25_AQI[FirstRow(Val(p))]
         IN  {<<i, row[5]>> :
                i \in PyRound((row[4] - row[3]) * (Val(p) - row[1]) + row[3] * (row[2] - row[1]),
                              row[2] - row[1])}

_clamp01(x) == Max2(0, Min2(Scale, x))

\* float(pm25) / 15.0 / 4.0 in units of 1/Scale; an absent reading gives 0.0.
pm_norm(p) ==
    IF ~IsSome(p) THEN 0 ELSE _clamp01((Val(p) * Scale) \div (100 * 15 * 4))

\* The weights w1..w4 in hundredths.
w1 == 55
w2 == 20
w3 == 15
w4 == 10

\* r in units of 1/(100*Scale); _clamp01(r) * 100 is WeightedSum/Scale.
WeightedSum(p, s, t, se) ==
    w1 * pm_norm(p) + w2 * _clamp01(s) + w3 * _clamp01(t) + w4 * _clamp01(se)

risk_index_spec_weights(p, s, t, se) ==
    PyRound(Max2(0, Min2(100 * Scale,
                45 * pm_norm(p) + 25 * _clamp01(s) + 20 * _clamp01(t) + 10 * _clamp01(se))),
            Scale)

risk_index(p, s, t, se) ==
    PyRound(Max2(0, Min2(100 * Scale, WeightedSum(p, s, t, se))), Scale)

\* Wind speeds are in tenths of a m/s, pressures in hPa, ages in minutes.
stagnation_score(wind_m_s, pressure_hpa) ==
    IF ~IsSome(wind_m_s) \/ ~IsSome(pressure_hpa) THEN (4 * Scale) \div 10
    ELSE LET wind_component == _clamp01(((25 - Val(wind_m_s)) * Scale) \div 25)
             pres_component == _clamp01(((Val(pressure_hpa) - 1012) * Scale) \div 18)
         IN  _clamp01((65 * wind_component + 35 * pres_component) \div 100)

\* (score, label); raw = delta/denom, score = clamp01((raw + 0.7) / 1.4).
trend_score(pm_series) ==
    IF Len(pm_series) < 2 THEN <<Scale \div 2, "stable">>
    ELSE LET first == pm_series[1]
             last == pm_series[Len(pm_series)]
             delta == last - first
             denom == Max2(1000, Abs(first) + 1000)
             score == _clamp01(((10 * delta + 7 * denom) * (Scale \div 2)) \div (7 * denom))
         IN  <<score, IF delta > 300 THEN "rising"
                      ELSE IF delta < -300 THEN "falling" ELSE "stable">>

seasonality(mon) ==
    IF mon \in {11, 12, 1, 2, 3} THEN (75 * Scale) \div 100 ELSE (25 * Scale) \div 100

confidence_score_unclamped(data_age_minutes, coverage_ratio, forecast_stability) ==
    50 * (Scale - (data_age_minutes * Scale) \div 180) + 35 * coverage_ratio
        + 15 * forecast_stability

\* The confidence in units of 1/(100*Scale).
confidence_score(data_age_minutes, coverage_ratio, forecast_stability) ==
    LET freshness == _clamp01(Scale - (data_age_minutes * Scale) \div 180)
        coverage == _clamp01(coverage_ratio)
        stability == _clamp01(forecast_stability)
    IN  Max2(0, Min2(100 * Scale, 50 * freshness + 35 * coverage + 15 * stability))

\* mon is datetime.now().month.
compute_all(p, wind, pressure, pm_series, data_age_minutes, coverage_ratio, forecast_stability, mon) ==
    LET t == trend_score(pm_series)
    IN  {[aqi |-> a[1],
          category |-> a[2],
          risk_score |-> r,
          confidence |-> confidence_score(data_age_minutes, coverage_ratio, forecast_stability),
          trend_label |-> t[2]] :
            a \in aqi_from_pm25(p),
            r \in risk_index(p, stagnation_score(wind, pressure), t[1], seasonality(mon))}

(***************************************************************************)
(* Specification SpecAqi: aqi_from_pm25 applied to a stream of readings.   *)
(***************************************************************************)
MaxPm == 50100
MaxNeg == 20
MaxStep == 2

PmInputs == {None} \cup {Some(v) : v \in (-MaxNeg)..MaxPm}

RiskIdle ==
    /\ pm25 = None /\ stag = 0 /\ trend = 0 /\ seas = 0 /\ risk = None

HttpIdle ==
    /\ api_key = TRUE /\ hpc = "idle" /\ attempt = 0
    /\ last_err = None /\ sent = << >> /\ ret = None

ScanIdle ==
    /\ locations = << >> /\ provider = << >> /\ rpc = "idle" /\ idx = 0
    /\ scan_err = None /\ fetched = << >> /\ found = None

CITIES == {"almaty", "astana"}

NoRequest == [op |-> "none"]

SnapIdle ==
    /\ ow = FALSE /\ cache = [k \in CITIES |-> None] /\ now = 0 /\ month = 1
    /\ stored = [k \in CITIES |-> None] /\ req = NoRequest

SimIdle ==
    /\ opc = "idle" /\ given = None /\ outlook_snap = None /\ hours_arg = None /\ hours = 0
    /\ hourly = << >> /\ pm_now = 0 /\ pm_sim = 0 /\ step = 0 /\ results = << >>
    /\ first_run = None

PickIdle == offered = << >> /\ picked = None

Callers == {1, 2}

RaceIdle ==
    /\ calls = [c \in Callers |-> [pc |-> "idle"]]
    /\ writes = [k \in CITIES |-> {}]

ExtIdle == SimIdle /\ PickIdle /\ RaceIdle

InitAqi ==
    /\ pm \in PmInputs
    /\ aqi = None
    /\ RiskIdle /\ HttpIdle /\ ScanIdle /\ SnapIdle /\ ExtIdle

\* The first reading is converted.
AqiFromPm25 ==
    /\ aqi = None
    /\ aqi' \in aqi_from_pm25(pm)
    /\ UNCHANGED <<pm, riskVars, httpVars, scanVars, snapVars, extVars>>

\* The next reading, a little above the previous one, is converted.
NextReading ==
    /\ aqi # None
    /\ IsSome(pm)
    /\ \E d \in 1..MaxStep :
          /\ Val(pm) + d <= MaxPm
          /\ pm' = Some(Val(pm) + d)
    /\ aqi' \in aqi_from_pm25(pm')
    /\ UNCHANGED <<riskVars, httpVars, scanVars, snapVars, extVars>>

NextAqi == AqiFromPm25 \/ NextReading

SpecAqi == InitAqi /\ [][NextAqi]_vars

\* C8: aqi_from_pm25 is monotonic non-decreasing on the non-negative
\* concentrations, at the resolution of hundredths: whenever a reading a >= 0 is
\* followed by a reading b >= a, the index returned for a is <= the index for b.
C8_Monotonic ==
    [][(aqi # None /\ IsSome(pm) /\ IsSome(pm') /\ 0 <= Val(pm) /\ Val(pm) <= Val(pm'))
          => aqi[1] <= aqi'[1]]_vars

\* The interpolated index of row i at concentration v, as the fraction
\* InterpNum/InterpDen = (iHigh-iLow)/(cHigh-cLow)*(v-cLow)+iLow.
InterpNum(i, v) ==
    (_PM25_AQI[i][4] - _PM25_AQI[i][3]) * (v - _PM25_AQI[i][1])
        + _PM25_AQI[i][3] * (_PM25_AQI[i][2] - _PM25_AQI[i][1])
InterpDen(i) == _PM25_AQI[i][2] - _PM25_AQI[i][1]

\* C9: inside a breakpoint range the returned index is a nearest integer of the
\* linear interpolation and the label is the range's label; 12.0 gives 50, 12.1
\* gives 51, 35.4 gives 100, 500.4 gives 500; above 500.4 the result is
\* 500/Hazardous; an absent concentration gives (0, dash).
C9_Interpolation ==
    aqi # None =>
        /\ ~IsSome(pm) => aqi = <<0, "-">>
        /\ IsSome(pm) =>
            /\ \A i \in 1..Len(_PM25_AQI) :
                  (_PM25_AQI[i][1] <= Val(pm) /\ Val(pm) <= _PM25_AQI[i][2]) =>
                      /\ aqi[2] = _PM25_AQI[i][5]
                      /\ 2 * Abs(aqi[1] * InterpDen(i) - InterpNum(i, Val(pm))) <= InterpDen(i)
            /\ Val(pm) > 50040 => aqi = <<500, "Hazardous">>
            /\ Val(pm) = 1200 => aqi[1] = 50
            /\ Val(pm) = 1210 => aqi[1] = 51
            /\ Val(pm) = 3540 => aqi[1] = 100
            /\ Val(pm) = 50040 => aqi[1] = 500

\* 20.0 ug/m3 is inside the Moderate range: 49/23.3*7.9+51 = 67.6..., index 68.
C9_Witness == pm = Some(2000) /\ aqi = <<68, "Moderate">>

(***************************************************************************)
(* Specification SpecRisk: risk_index applied to drawn sub-scores.         *)
(***************************************************************************)
ScoreSteps == 8

\* Sub-score arguments: a grid over [0,1] and one point outside on each side.
ScoreInputs == {(k * Scale) \div ScoreSteps : k \in (-1)..(ScoreSteps + 1)}
RiskPmInputs == {None} \cup {Some(v) : v \in {-100, 0, 750, 1500, 3000, 4500, 6000, 9000}}

AqiIdle == pm = None /\ aqi = None

InitRisk ==
    /\ pm25 \in RiskPmInputs
    /\ stag \in ScoreInputs
    /\ trend \in ScoreInputs
    /\ seas \in ScoreInputs
    /\ risk = None
    /\ AqiIdle /\ HttpIdle /\ ScanIdle /\ SnapIdle /\ ExtIdle

RiskIndex ==
    /\ risk = None
    /\ \E r \in risk_index(pm25, stag, trend, seas) : risk' = Some(r)
    /\ UNCHANGED <<pm25, stag, trend, seas, aqiVars, httpVars, scanVars, snapVars, extVars>>

NextRisk == RiskIndex

SpecRisk == InitRisk /\ [][NextRisk]_vars

InUnit(x) == 0 <= x /\ x <= Scale

\* 100 * clamp01(a*pmNorm + b*stag + c*trend + d*seas) in units of 1/Scale,
\* weights in hundredths, sub-scores taken as given.
Formula(a, b, c, d, pn, s, t, se) ==
    Max2(0, Min2(100 * Scale, a * pn + b * s + c * t + d * se))

IsNearest(n, num, den) == 2 * Abs(n * den - num) <= den

\* C10 (as stated): risk_index(pm, stag, trend, seas) is
\* round(100*clamp01(0.45*pmNorm(pm) + 0.25*stag + 0.20*trend + 0.10*seas))
\* for every combination of sub-score inputs (read here on the sub-scores in
\* [0,1], the values the sub-score functions produce).
C10_SpecWeights ==
    (IsSome(risk) /\ InUnit(stag) /\ InUnit(trend) /\ InUnit(seas)) =>
        IsNearest(Val(risk), Formula(45, 25, 20, 10, pm_norm(pm25), stag, trend, seas), Scale)

\* C10 (amended): risk_index is
\* round(100*clamp01(0.55*pmNorm(pm) + 0.20*clamp01(stag) + 0.15*clamp01(trend)
\* + 0.10*clamp01(seas))), with pmNorm(pm) = clamp01(pm/15/4) and pmNorm of an
\* absent reading 0.
C10_CodeWeights ==
    IsSome(risk) =>
        LET pn == IF IsSome(pm25) THEN Max2(0, Min2(Scale, Val(pm25))) ELSE 0
            c(x) == Max2(0, Min2(Scale, x))
        IN  IsNearest(Val(risk), Formula(55, 20, 15, 10, pn, c(stag), c(trend), c(seas)), Scale)

\* pm 30.0 (pmNorm 0.5), stag 0.5, trend 0.25, seas 0.75:
\* 100*(0.275 + 0.10 + 0.0375 + 0.075) = 48.75, risk 49.
C10_Witness ==
    /\ pm25 = Some(3000) /\ stag = Scale \div 2 /\ trend = Scale \div 4
    /\ seas = (3 * Scale) \div 4 /\ risk = Some(49)

(***************************************************************************)
(* openaq_client.py: OpenAQClient._get_json                                *)
(*                                                                         *)
(* A response is what session.get gives for one request: a transport error *)
(* (timeout, connection error: requests raises), or an HTTP response with a *)
(* status and a body that parses as JSON (Some(b)) or does not (None).      *)
(***************************************************************************)
MaxBody == 2

Statuses == {200, 400, 404, 429, 500, 501, 502, 503, 504}
TransientStatuses == {429, 500, 502, 503, 504}

Responses ==
    {[t |-> "transport", status |-> 0, body |-> None]}
        \cup {[t |-> "http", status |-> st, body |-> b] :
                st \in Statuses, b \in {None} \cup {Some(k) : k \in 1..MaxBody}}

\* range(3)
RetryLimitMutant == 3 + 1
RetryLimit == 3

\* r.raise_for_status() raises HTTPError for 4xx and 5xx.
RaisesForStatus(r) == r.status >= 400

\* The attempt returns r.json().
Succeeds(r) ==
    /\ r.t = "http"
    /\ r.status \notin TransientStatuses
    /\ ~RaisesForStatus(r)
    /\ IsSome(r.body)

\* What last_err holds after a failed attempt.
ErrorOf(r) ==
    IF r.t = "transport" THEN [kind |-> "RequestException", status |-> 0]
    ELSE IF r.status \in TransientStatuses THEN [kind |-> "temporary", status |-> r.status]
    ELSE IF RaisesForStatus(r) THEN [kind |-> "HTTPError", status |-> r.status]
    ELSE [kind |-> "JSONDecodeError", status |-> r.status]

MissingKey == [kind |-> "missing", status |-> 0]

\* A call starts: the key check, then the loop is entered.
GetJson ==
    /\ hpc \in {"idle", "returned", "raised"}
    /\ attempt' = 0
    /\ last_err' = None
    /\ sent' = << >>
    /\ IF ~api_key
         THEN hpc' = "raised" /\ ret' = Some([raise |-> MissingKey])
         ELSE hpc' = "loop" /\ ret' = None
    /\ UNCHANGED <<api_key, aqiVars, riskVars, scanVars, snapVars, extVars>>

\* One iteration of the loop: the request is sent and answered; when it was
\* the last iteration and failed, the loop ends and OpenAQError is raised.
Attempt ==
    /\ hpc = "loop"
    /\ attempt < RetryLimit
    /\ \E r \in Responses :
          /\ sent' = Append(sent, r)
          /\ IF Succeeds(r)
               THEN /\ hpc' = "returned"
                    /\ ret' = Some([return |-> Val(r.body)])
                    /\ UNCHANGED <<attempt, last_err>>
               ELSE /\ attempt' = attempt + 1
                    /\ last_err' = Some(ErrorOf(r))
                    /\ IF attempt + 1 < RetryLimit
                         THEN hpc' = "loop" /\ ret' = None
                         ELSE hpc' = "raised" /\ ret' = Some([raise |-> ErrorOf(r)])
    /\ UNCHANGED <<api_key, aqiVars, riskVars, scanVars, snapVars, extVars>>

InitHttp ==
    /\ api_key \in BOOLEAN
    /\ hpc = "idle" /\ attempt = 0 /\ last_err = None /\ sent = << >> /\ ret = None
    /\ AqiIdle /\ RiskIdle /\ ScanIdle /\ SnapIdle /\ ExtIdle

NextHttp == GetJson \/ Attempt

SpecHttp == InitHttp /\ [][NextHttp]_vars

Transient(r) == r.t = "transport" \/ (r.t = "http" /\ r.status \in TransientStatuses)

\* An HTTP 4xx other than 429, or a body that cannot be parsed as JSON.
NonTransient(r) ==
    /\ r.t = "http"
    /\ \/ (r.status >= 400 /\ r.status < 500 /\ r.status # 429)
       \/ (r.status < 400 /\ ~IsSome(r.body))

\* C1: a non-transient failure (4xx other than 429, unparseable body) makes the
\* call fail immediately: no further HTTP request is sent after it, so a call
\* whose first answer is one sends exactly one request.
C1_NoRetryOnNonTransient ==
    \A i \in 1..Len(sent) : NonTransient(sent[i]) => i = Len(sent)

\* C2: a call ends after at most 3 HTTP attempts: it is still running only with
\* fewer than 3 answered attempts, all failed; it returns the parsed body of the
\* first attempt that succeeded, every earlier attempt (transient status,
\* transport error) having been followed by the next; and once the key is set
\* it raises OpenAQError only after the third failed attempt.
C2_BoundedRetry ==
    /\ Len(sent) <= 3
    /\ hpc = "loop" => (Len(sent) < 3 /\ \A i \in 1..Len(sent) : ~Succeeds(sent[i]))
    /\ hpc = "returned" =>
          /\ Len(sent) >= 1
          /\ Succeeds(sent[Len(sent)])
          /\ ret = Some([return |-> Val(sent[Len(sent)].body)])
          /\ \A i \in 1..(Len(sent) - 1) : ~Succeeds(sent[i])
    /\ (hpc = "raised" /\ api_key) =>
          /\ Len(sent) = 3
          /\ \A i \in 1..3 : ~Succeeds(sent[i])
    /\ \A i \in 1..Len(sent) :
          (Transient(sent[i]) /\ i < 3) => (hpc = "loop" \/ Len(sent) > i)

\* Two transient answers (a 503, a timeout), then a body on the third attempt.
C2_Witness ==
    /\ hpc = "returned" /\ Len(sent) = 3
    /\ sent[1].status = 503 /\ sent[2].t = "transport"
    /\ ret = Some([return |-> 1])

(***************************************************************************)
(* openaq_client.py: _pick_best_pm25_sensor and pm25_latest_near           *)
(*                                                                         *)
(* A location is [pos, id, dist]: pos is its place in the provider's list, *)
(* id is 0 when the location carries no (truthy) id, dist is None when the *)
(* location has no "distance" key.  A sensor is [id, pid, pname, value,    *)
(* utc]: value is None when latest.value is absent, utc is the latest UTC  *)
(* timestamp as a number (0 for the empty string; ISO strings of one       *)
(* format compare as their instants do).                                   *)
(***************************************************************************)
PM25_PARAMETER_ID == 2
PM25_PARAMETER_NAMES == {"pm25", "pm2.5", "pm2_5"}

\* str.lower() on the parameter names of the model.
Lower(name) ==
    CASE name = "PM25" -> "pm25"
      [] name = "PM2.5" -> "pm2.5"
      [] name = "PM10" -> "pm10"
      [] OTHER -> name

IsPm25(sn) == sn.pid = PM25_PARAMETER_ID \/ Lower(sn.pname) \in PM25_PARAMETER_NAMES

SensorScoreTimeOnly(sn) == <<0, sn.utc>>

\* score(sensor) = (has_value, dt_utc); tuples compare lexicographically.
SensorScore(sn) == <<IF IsSome(sn.value) THEN 1 ELSE 0, sn.utc>>
ScoreLess(a, b) == a[1] < b[1] \/ (a[1] = b[1] /\ a[2] < b[2])

\* candidates.sort(key=score, reverse=True); candidates[0]: the sort is stable,
\* so the first of the candidates with the greatest score.  None without one.
_pick_best_pm25_sensor(sensors) ==
    LET candidates == SelectSeq(sensors, IsPm25)
    IN  IF candidates = << >> THEN None
        ELSE LET best == CHOOSE i \in 1..Len(candidates) :
                            /\ \A j \in 1..Len(candidates) :
                                  ~ScoreLess(SensorScore(candidates[i]), SensorScore(candidates[j]))
                            /\ \A j \in 1..(i - 1) :
                                  SensorScore(candidates[j]) # SensorScore(candidates[i])
             IN  Some(candidates[best])

\* 10**9, the sort key of a location whose distance is missing or falsy.
FarAway == 1000000000

\* key=lambda x: (x or {}).get("distance") or 10**9
DistanceKey(loc) ==
    IF IsSome(loc.dist) /\ Val(loc.dist) # 0 THEN Val(loc.dist) ELSE FarAway

\* The key a sort on the reported distance itself would use (0 is the closest).
DistanceKeyZeroClosest(loc) ==
    IF IsSome(loc.dist) THEN Val(loc.dist) ELSE FarAway

\* sorted(items, key=...) on a sequence of [key, item]: stable insertion of
\* each element after its equals.
RECURSIVE InsertByKey(_, _)
InsertByKey(x, seq) ==
    IF seq = << >> THEN <<x>>
    ELSE IF x.key < Head(seq).key THEN <<x>> \o seq
    ELSE <<Head(seq)>> \o InsertByKey(x, Tail(seq))

RECURSIVE SortedByKey(_)
SortedByKey(seq) ==
    IF seq = << >> THEN << >>
    ELSE InsertByKey(seq[Len(seq)], SortedByKey(SubSeq(seq, 1, Len(seq) - 1)))

Items(seq) == [i \in 1..Len(seq) |-> seq[i].item]

AnyDistance(locs) == \E i \in 1..Len(locs) : IsSome(locs[i].dist)

\* Lines 167-169: sort by distance when any location has the key.
PreferClosest(locs) ==
    IF AnyDistance(locs)
      THEN Items(SortedByKey([i \in 1..Len(locs) |->
                                [key |-> DistanceKey(locs[i]), item |-> locs[i]]]))
      ELSE locs

(***************************************************************************)
(* Specification SpecScan: one pm25_latest_near call against an upstream   *)
(* that answers each location_sensors call when it is made.                *)
(***************************************************************************)
MaxLocs == 3
MaxDist == 2
max_location_checks == 2

LocationLists ==
    UNION {
        {[p \in 1..n |-> [pos |-> p,
                           id |-> IF f[p][1] THEN p ELSE 0,
                           dist |-> f[p][2]]] :
            f \in [1..n -> BOOLEAN \X ({None} \cup {Some(d) : d \in 0..MaxDist})]}
        : n \in 0..MaxLocs}

\* What location_sensors(loc_id) can answer: an OpenAQError of _get_json
\* ("raise"), or a list of sensors.
SensorAnswers(lid) ==
    { [t |-> "raise", sensors |-> << >>],
      [t |-> "list", sensors |->
          << [id |-> 10 * lid + 1, pid |-> 1, pname |-> "PM10", value |-> Some(900), utc |-> 2] >>],
      [t |-> "list", sensors |->
          << [id |-> 10 * lid + 2, pid |-> PM25_PARAMETER_ID, pname |-> "pm25", value |-> None, utc |-> 2] >>],
      [t |-> "list", sensors |->
          << [id |-> 10 * lid + 2, pid |-> PM25_PARAMETER_ID, pname |-> "pm25", value |-> None, utc |-> 2],
             [id |-> 10 * lid + 3, pid |-> 0, pname |-> "PM2.5", value |-> Some(1000 * lid), utc |-> 1] >>] }

\* last_err after the location was skipped; the text of the first two names the
\* location, str(e) of a failed fetch does not.
SkipReason(lid, why) == [loc |-> IF why = "fetch failed" THEN 0 ELSE lid, why |-> why]

\* The outcome of one loop iteration on location loc with upstream answer a:
\* "skip" with the reason recorded, or "return" with the dict.
ScanOutcome(loc, a) ==
    IF a.t = "raise" THEN [t |-> "skip", reason |-> SkipReason(loc.id, "fetch failed")]
    ELSE LET pm25_sensor == _pick_best_pm25_sensor(a.sensors)
         IN  IF ~IsSome(pm25_sensor)
               THEN [t |-> "skip", reason |-> SkipReason(loc.id, "no PM2.5 sensor")]
             ELSE IF ~IsSome(Val(pm25_sensor).value)
               THEN [t |-> "skip", reason |-> SkipReason(loc.id, "no latest value")]
             ELSE [t |-> "return",
                   data |-> [pm25_ug_m3 |-> Val(Val(pm25_sensor).value),
                             timestamp_utc |-> Val(pm25_sensor).utc,
                             sensor_id |-> Val(pm25_sensor).id,
                             location_id |-> loc.id]]

\* last_err = ...: the new reason replaces the one held.
RecordFirstOnly(held, reason) == IF IsSome(held) THEN held ELSE Some(reason)
Record(held, reason) == Some(reason)

ScanLengthAll == Len(locations)

\* The number of locations the loop visits: locations[:max_location_checks].
ScanLength == Min2(Len(locations), max_location_checks)

\* raise OpenAQError(last_err or "Unable to resolve ...")
ScanFailure(err) ==
    [raise |-> IF IsSome(err) THEN Val(err) ELSE [loc |-> 0, why |-> "unable to resolve"]]

InitScan ==
    /\ ScanIdle
    /\ AqiIdle /\ RiskIdle /\ HttpIdle /\ SnapIdle /\ ExtIdle

\* Lines 158-171: the locations are fetched and sorted.
LocationsNear ==
    /\ rpc = "idle"
    /\ \/ /\ rpc' = "raised"
          /\ found' = Some([raise |-> [loc |-> 0, why |-> "fetch failed"]])
          /\ UNCHANGED <<locations, provider>>
       \/ \E locs \in LocationLists :
            /\ provider' = locs
            /\ locations' = PreferClosest(locs)
            /\ IF locs = << >>
                 THEN /\ rpc' = "raised"
                      /\ found' = Some([raise |-> [loc |-> 0, why |-> "no locations"]])
                 ELSE rpc' = "scan" /\ found' = None
    /\ idx' = 1
    /\ UNCHANGED <<scan_err, fetched, aqiVars, riskVars, httpVars, snapVars, extVars>>

\* One iteration of the loop (lines 172-209); after the last one, line 211.
ScanLocation ==
    /\ rpc = "scan"
    /\ idx <= ScanLength
    /\ LET loc == locations[idx]
           last == idx = ScanLength
       IN  IF loc.id = 0
             THEN /\ idx' = idx + 1
                  /\ IF last
                       THEN rpc' = "raised" /\ found' = Some(ScanFailure(scan_err))
                       ELSE UNCHANGED <<rpc, found>>
                  /\ UNCHANGED <<scan_err, fetched>>
             ELSE \E a \in SensorAnswers(loc.id) :
                    LET out == ScanOutcome(loc, a)
                    IN  /\ fetched' = Append(fetched, [pos |-> loc.pos, out |-> out])
                        /\ IF out.t = "return"
                             THEN /\ rpc' = "returned"
                                  /\ found' = Some([return |-> out.data])
                                  /\ UNCHANGED <<idx, scan_err>>
                             ELSE /\ scan_err' = Record(scan_err, out.reason)
                                  /\ idx' = idx + 1
                                  /\ IF last
                                       THEN rpc' = "raised" /\ found' = Some(ScanFailure(scan_err'))
                                       ELSE UNCHANGED <<rpc, found>>
    /\ UNCHANGED <<locations, provider, aqiVars, riskVars, httpVars, snapVars, extVars>>

NextScan == LocationsNear \/ ScanLocation

SpecScan == InitScan /\ [][NextScan]_vars

\* The order the claim describes: ascending reported distance, 0 the closest,
\* when any location reports one; else the provider's order.
AscendingOrder(locs) ==
    IF AnyDistance(locs)
      THEN Items(SortedByKey([i \in 1..Len(locs) |->
                                [key |-> DistanceKeyZeroClosest(locs[i]), item |-> locs[i]]]))
      ELSE locs

WithId(locs) == SelectSeq(locs, LAMBDA l : l.id # 0)
PosIn(seq, p) == CHOOSE i \in 1..Len(seq) : seq[i].pos = p
WasFetched(p) == \E k \in 1..Len(fetched) : fetched[k].pos = p

\* C6: the locations are visited in ascending order of reported distance (a
\* reported 0 is the closest) when any reports one, else in provider order, and
\* the returned data is that of the first location in this order with a present
\* PM2.5 value: every location before it in the order was visited and skipped.
C6_AscendingDistance ==
    rpc # "idle" =>
        /\ \A k \in 1..Len(fetched) : fetched[k].pos = WithId(AscendingOrder(provider))[k].pos
        /\ rpc = "returned" =>
              LET winner == fetched[Len(fetched)].pos
                  asc == AscendingOrder(provider)
              IN  \A i \in 1..(PosIn(asc, winner) - 1) :
                      asc[i].id # 0 => WasFetched(asc[i].pos)

\* C6 restricted to lists in which no location reports the distance 0.
C6_NonZeroDistances ==
    (rpc # "idle" /\ \A i \in 1..Len(provider) : provider[i].dist # Some(0)) =>
        /\ \A k \in 1..Len(fetched) : fetched[k].pos = WithId(AscendingOrder(provider))[k].pos
        /\ rpc = "returned" =>
              LET winner == fetched[Len(fetched)].pos
                  asc == AscendingOrder(provider)
              IN  \A i \in 1..(PosIn(asc, winner) - 1) :
                      asc[i].id # 0 => WasFetched(asc[i].pos)

ScanExhausted == rpc = "raised" /\ provider # << >>
Skipped == SelectSeq(fetched, LAMBDA e : e.out.t = "skip")

\* C7 (as stated): when the scan ends without a value, the error raised holds
\* the recorded skip reason of every location skipped, not only one of them.
C7_EveryReason ==
    ScanExhausted =>
        \A k \in 1..Len(Skipped) : Skipped[k].out.reason = Val(found).raise

\* C7 (amended): when the scan ends without a value, the error raised is the
\* skip reason recorded last (that of the last location skipped after a fetch);
\* earlier reasons are overwritten, and with no reason recorded at all (no
\* scanned location had an id) it is the generic message.
C7_LastReason ==
    ScanExhausted =>
        Val(found).raise =
            IF Skipped = << >> THEN [loc |-> 0, why |-> "unable to resolve"]
            ELSE Skipped[Len(Skipped)].out.reason

\* Two locations skipped for different reasons; the error is the second's.
C7_Witness ==
    /\ ScanExhausted /\ Len(Skipped) = 2
    /\ Skipped[1].out.reason.why = "no PM2.5 sensor"
    /\ Skipped[2].out.reason.why = "no latest value"
    /\ Val(found).raise = Skipped[2].out.reason

(***************************************************************************)
(* views_api.py: _current_snapshot, aq_current, aq_outlook                 *)
(*                                                                         *)
(* A request names a city of CITIES and no coordinates, so the cache key   *)
(* is the city.  The cache is Django's: an entry set with a timeout is     *)
(* read back until the timeout has passed; cache calls do not fail.        *)
(***************************************************************************)
CacheTimeout == 600
TickSeconds == CacheTimeout \div 2
MaxTicks == 2

\* What pm25_latest_near returns for the city (the dict of lines 194-207).
Seeds ==
    { [pm25_ug_m3 |-> 4260, unit |-> "ug/m3", timestamp_utc |-> "T1", age |-> 30,
       sensor_id |-> 12, location_id |-> 1] }

\* The messages of the OpenAQError pm25_latest_near raises.
MissingKeyMessage == "OPENAQ_API_KEY is missing (OpenAQ v3 requires an API key)."
ScanErrors == {"OpenAQ temporary error HTTP 503", "PM2.5 sensor at location 1 has no latest value."}

ScanAnswers ==
    IF ~api_key THEN {[t |-> "raise", error |-> MissingKeyMessage]}
    ELSE {[t |-> "raise", error |-> e] : e \in ScanErrors}
            \cup {[t |-> "ok", snap |-> sd] : sd \in Seeds}

\* What sensor_hourly answers: it raises, or rows [value, pct, at] in the
\* provider's order (value and percentCoverage may be absent).
SeriesAnswers ==
    { [t |-> "raise", rows |-> << >>],
      [t |-> "rows", rows |->
          << [value |-> Some(1530), pct |-> Some(100), at |-> 2],
             [value |-> None, pct |-> Some(100), at |-> 3],
             [value |-> Some(830), pct |-> Some(50), at |-> 1] >>] }

\* What ow.onecall answers: it raises, or the "current" object.
WeatherAnswers ==
    { [t |-> "raise"],
      [t |-> "ok", current |-> [temp |-> Some(5), wind_speed |-> Some(10), pressure |-> Some(1021)]] }

\* _extract_hour_point on the rows: rows without a value are dropped.
ExtractHourPoints(rows) == SelectSeq(rows, LAMBDA r : IsSome(r.value))

RECURSIVE SumSeq(_)
SumSeq(seq) == IF seq = << >> THEN 0 ELSE Head(seq) + SumSeq(Tail(seq))

\* Lines 96-110: (series_vals, coverage_ratio); coverage in units of 1/Scale.
SeriesOf(reading, series) ==
    LET pts == IF series.t = "raise" THEN << >> ELSE ExtractHourPoints(series.rows)
        covs == SelectSeq(pts, LAMBDA q : IsSome(q.pct))
    IN  [series_vals |-> IF pts = << >> THEN <<reading>>
                         ELSE [i \in 1..Len(pts) |-> Val(pts[i].value)],
         coverage_ratio |->
            IF covs = << >> THEN (75 * Scale) \div 100
            ELSE (SumSeq([i \in 1..Len(covs) |-> Val(covs[i].pct)]) * Scale)
                    \div (100 * Len(covs))]

WeatherOfKeepsReadings(weather) ==
    [wind |-> Some(10), pres |-> Some(1021), weather |-> << >>]

\* Lines 112-128: (wind, pres, weather); weather {} is the empty record.
WeatherOf(weather) ==
    IF ~ow \/ weather.t = "raise"
      THEN [wind |-> None, pres |-> None, weather |-> << >>]
      ELSE [wind |-> weather.current.wind_speed,
            pres |-> weather.current.pressure,
            weather |-> [temp_c |-> weather.current.temp,
                         wind_m_s |-> weather.current.wind_speed,
                         pressure_hpa |-> weather.current.pressure]]

FreshSource == "OpenAQ v3"
StaleSource == "OpenAQ (cached)"

\* Lines 142-176: the dicts a successful fetch can build.
SnapshotData(city, snap, series, weather) ==
    LET sv == SeriesOf(snap.pm25_ug_m3, series)
        wx == WeatherOf(weather)
    IN  {[city |-> city,
          pm25_ug_m3 |-> 10 * tenths,
          unit |-> snap.unit,
          aqi |-> out.aqi,
          category |-> out.category,
          risk_score |-> out.risk_score,
          confidence |-> out.confidence,
          trend |-> out.trend_label,
          timestamp_utc |-> snap.timestamp_utc,
          sensor_id |-> snap.sensor_id,
          location_id |-> snap.location_id,
          source |-> FreshSource,
          weather |-> wx.weather] :
            tenths \in PyRound(snap.pm25_ug_m3, 10),
            out \in compute_all(Some(snap.pm25_ug_m3), wx.wind, wx.pres, sv.series_vals,
                                snap.age, sv.coverage_ratio, (7 * Scale) \div 10, month)}

\* cache.get(key): the value while its timeout has not passed.
CacheGetNever(key) == None
CacheGet(key) ==
    IF IsSome(cache[key]) /\ now < Val(cache[key]).expires
      THEN Some(Val(cache[key]).value) ELSE None

\* Lines 184-187: dict(cached) with stale, source and error set.
StaleCopyNoError(cached, error) ==
    ("stale" :> TRUE) @@ ("source" :> StaleSource) @@ ("error" :> "") @@ cached
StaleCopy(cached, error) ==
    ("stale" :> TRUE) @@ ("source" :> StaleSource) @@ ("error" :> error) @@ cached

MissingHint == "OPENAQ_API_KEY is missing. Add your OpenAQ v3 API key into .env as OPENAQ_API_KEY=..."
DefaultHint == "Check OPENAQ_API_KEY (.env) and that you're using OpenAQ v3 endpoints."

MentionsMissingNever(error) == FALSE

\* "missing" in str(e).lower(), for the messages of the model.
MentionsMissing(error) == error = MissingKeyMessage

\* Lines 190-193.
ErrorObject(error) ==
    [error |-> "OpenAQ unavailable", detail |-> error,
     hint |-> IF MentionsMissing(error) THEN MissingHint ELSE DefaultHint]

\* _current_snapshot(city) with the upstream answers of this call: the pair
\* (data, error) it returns and the entry it sets in the cache, if any.
CurrentSnapshot(city, scan, series, weather) ==
    IF scan.t = "ok"
      THEN {[data |-> Some(data), err |-> None, set |-> Some(data)] :
                data \in SnapshotData(city, scan.snap, series, weather)}
      ELSE LET cached == CacheGet(city)
           IN  IF IsSome(cached)
                 THEN {[data |-> Some(StaleCopy(Val(cached), scan.error)),
                        err |-> None, set |-> None]}
                 ELSE {[data |-> None, err |-> Some(ErrorObject(scan.error)), set |-> None]}

CacheAfterAnySnapshot(city, res) ==
    IF "data" \in DOMAIN res /\ IsSome(res.data)
      THEN [cache EXCEPT ![city] = Some([value |-> Val(res.data), expires |-> now + CacheTimeout])]
      ELSE cache

\* cache.set(key, data, 10 * 60)
CacheAfter(city, res) ==
    IF IsSome(res.set)
      THEN [cache EXCEPT ![city] = Some([value |-> Val(res.set), expires |-> now + CacheTimeout])]
      ELSE cache

StoredAfter(city, res) ==
    IF IsSome(res.set)
      THEN [stored EXCEPT ![city] = Some([value |-> Val(res.set), at |-> now])]
      ELSE stored

\* The snapshot of the last successful fetch for the key, if it was made less
\* than CacheTimeout ago.
LiveBefore(city) ==
    IF IsSome(stored[city]) /\ now < Val(stored[city]).at + CacheTimeout
      THEN Some(Val(stored[city]).value) ELSE None

\* The upstream calls a _current_snapshot call makes: the 24h series and the
\* weather are asked for only after pm25_latest_near returned, the weather only
\* with a weather client.
NotCalled == [t |-> "not called"]
SeriesCalls(scan) == IF scan.t = "ok" THEN SeriesAnswers ELSE {NotCalled}
WeatherCalls(scan) == IF scan.t = "ok" /\ ow THEN WeatherAnswers ELSE {NotCalled}

\* aq_current: JsonResponse(err, status=502) or JsonResponse(payload).
AqCurrent ==
    \E city \in CITIES, scan \in ScanAnswers :
      \E series \in SeriesCalls(scan), weather \in WeatherCalls(scan) :
        \E res \in CurrentSnapshot(city, scan, series, weather) :
            /\ cache' = CacheAfter(city, res)
            /\ stored' = StoredAfter(city, res)
            /\ req' = [op |-> "current", city |-> city, scan |-> scan.t,
                       error |-> IF scan.t = "raise" THEN scan.error ELSE "",
                       series_failed |-> series.t = "raise",
                       weather_failed |-> weather.t = "raise",
                       forecast_failed |-> FALSE,
                       before |-> LiveBefore(city),
                       data |-> res.data, err |-> res.err,
                       response |-> IF IsSome(res.err)
                                      THEN [status |-> 502, points |-> 0]
                                      ELSE [status |-> 200, points |-> 0]]
            /\ UNCHANGED <<ow, now, month, aqiVars, riskVars, httpVars, scanVars, extVars>>

\* int(request.GET.get("hours") or 72), then max(1, min(hours, 72)).
HoursInputs == {None, Some(2)}
ClampHours(h) == Max2(1, Min2(IF IsSome(h) THEN Val(h) ELSE 72, 72))

MaxHourly == 2

\* What ow.onecall answers in aq_outlook: it raises, or "hourly" has n entries.
ForecastAnswers == {[t |-> "raise", n |-> 0]} \cup {[t |-> "ok", n |-> n] : n \in 0..MaxHourly}

\* Line 300-301: the forecast is asked for after a snapshot (fresh or stale)
\* was obtained, with a weather client.
ForecastCalls(res) == IF IsSome(res.data) /\ ow THEN ForecastAnswers ELSE {NotCalled}

\* aq_outlook: the 502 of a failed snapshot, the exception of the unguarded
\* ow.onecall (the view raises: status 500), or one point per entry of
\* hourly[:hours] (of the `hours` placeholder samples without a weather client).
AqOutlook ==
    \E city \in CITIES, scan \in ScanAnswers :
      \E series \in SeriesCalls(scan), weather \in WeatherCalls(scan) :
        \E res \in CurrentSnapshot(city, scan, series, weather) :
          \E forecast \in ForecastCalls(res),
             h \in IF IsSome(res.data) THEN HoursInputs ELSE {None} :
            /\ cache' = CacheAfter(city, res)
            /\ stored' = StoredAfter(city, res)
            /\ req' = [op |-> "outlook", city |-> city, scan |-> scan.t,
                       error |-> IF scan.t = "raise" THEN scan.error ELSE "",
                       series_failed |-> series.t = "raise",
                       weather_failed |-> weather.t = "raise",
                       forecast_failed |-> forecast.t = "raise",
                       before |-> LiveBefore(city),
                       data |-> res.data, err |-> res.err,
                       response |->
                          IF IsSome(res.err) THEN [status |-> 502, points |-> 0]
                          ELSE IF forecast.t = "not called"
                            THEN [status |-> 200, points |-> ClampHours(h)]
                          ELSE IF forecast.t = "raise" THEN [status |-> 500, points |-> 0]
                          ELSE [status |-> 200, points |-> Min2(forecast.n, ClampHours(h))]]
            /\ UNCHANGED <<ow, now, month, aqiVars, riskVars, httpVars, scanVars, extVars>>

\* Time passes.  An entry whose timeout has passed is no longer read: it is
\* dropped here, and so is the record of a fetch made CacheTimeout ago.
Tick ==
    /\ now < MaxTicks * TickSeconds
    /\ now' = now + TickSeconds
    /\ cache' = [k \in CITIES |->
                    IF IsSome(cache[k]) /\ now' < Val(cache[k]).expires THEN cache[k] ELSE None]
    /\ stored' = [k \in CITIES |->
                    IF IsSome(stored[k]) /\ now' < Val(stored[k]).at + CacheTimeout
                      THEN stored[k] ELSE None]
    /\ UNCHANGED <<ow, month, req, aqiVars, riskVars, httpVars, scanVars, extVars>>

Init ==
    /\ api_key \in BOOLEAN
    /\ hpc = "idle" /\ attempt = 0 /\ last_err = None /\ sent = << >> /\ ret = None
    /\ ow \in BOOLEAN
    /\ month \in {1}
    /\ cache = [k \in CITIES |-> None]
    /\ stored = [k \in CITIES |-> None]
    /\ now = 0
    /\ req = NoRequest
    /\ AqiIdle /\ RiskIdle /\ ScanIdle /\ ExtIdle

Next == AqCurrent \/ AqOutlook \/ Tick

Spec == Init /\ [][Next]_vars

Served == req.op # "none"
FetchFailed == Served /\ req.scan = "raise"
OtherCity(c) == CHOOSE o \in CITIES : o # c

\* C3: when the fetch fails and an earlier successful fetch for the same key
\* populated the cache less than the timeout ago, the returned snapshot has
\* stale = TRUE, the triggering error string, a source other than the fresh
\* one, and every other field equal to the snapshot that fetch returned.
C3_StaleEqualsCached ==
    (FetchFailed /\ IsSome(req.before)) =>
        /\ IsSome(req.data)
        /\ LET d == Val(req.data)
               c == Val(req.before)
           IN  /\ DOMAIN d = DOMAIN c \cup {"stale", "error"}
               /\ d.stale = TRUE
               /\ d.error = req.error
               /\ c.source = FreshSource /\ d.source # FreshSource
               /\ c.city = req.city
               /\ \A f \in DOMAIN c \ {"source"} : d[f] = c[f]

\* A 503 five minutes after a successful fetch for almaty, while astana holds
\* an entry of its own: the almaty snapshot comes back stale.
C3_Witness ==
    /\ FetchFailed /\ req.city = "almaty" /\ now = TickSeconds
    /\ IsSome(req.before) /\ IsSome(cache["astana"])
    /\ IsSome(req.data) /\ Val(req.data).stale = TRUE
    /\ Val(req.data).error = "OpenAQ temporary error HTTP 503"
    /\ Val(req.data).pm25_ug_m3 = 4260

\* C4: every _current_snapshot call returns exactly one of (snapshot, no error)
\* and (no snapshot, error object with error/detail/hint); a failed fetch with a
\* live entry for the key returns the stale snapshot, and the error object is
\* returned exactly when the fetch fails and there is no live entry.
C4_SnapshotOrError ==
    Served =>
        /\ IsSome(req.data) # IsSome(req.err)
        /\ IsSome(req.err) => DOMAIN Val(req.err) = {"error", "detail", "hint"}
        /\ (FetchFailed /\ IsSome(req.before)) =>
              (IsSome(req.data) /\ "stale" \in DOMAIN Val(req.data) /\ ~IsSome(req.err))
        /\ IsSome(req.err) <=> (FetchFailed /\ ~IsSome(req.before))
        /\ IsSome(req.err) => Val(req.err).detail = req.error

\* The fetch for a city fails with nothing cached for it, while the other city
\* has a live entry: the error object, not the other city's snapshot.
C4_Witness ==
    /\ FetchFailed /\ ~IsSome(req.before) /\ IsSome(cache[OtherCity(req.city)])
    /\ IsSome(req.err) /\ ~IsSome(req.data)
    /\ Val(req.err).hint = DefaultHint

\* C5: when a current snapshot is obtained, a failure of a weather fetch never
\* makes aq_current or aq_outlook fail or raise: the response is the result.
C5_WeatherNeverFatal ==
    (Served /\ IsSome(req.data) /\ (req.weather_failed \/ req.forecast_failed)) =>
        req.response.status = 200

\* C5 for aq_current alone, whose only weather fetch is the guarded one.
C5_CurrentOnly ==
    (req.op = "current" /\ req.scan = "ok" /\ req.weather_failed) =>
        /\ req.response.status = 200
        /\ Val(req.data).weather = << >>

\* The values of the rows that carry one, in the order of the rows.
PointValuesOf(rows) ==
    LET pts == SelectSeq(rows, LAMBDA r : IsSome(r.value))
    IN  [k \in 1..Len(pts) |-> Val(pts[k].value)]

\* The values a degraded snapshot is scored with.
NeutralStagnation == (4 * Scale) \div 10
DefaultStability == (7 * Scale) \div 10
DefaultCoverage == (75 * Scale) \div 100
SinglePointTrend == <<Scale \div 2, "stable">>

\* C14: when sensor resolution succeeds and the 24h-series fetch and/or the
\* weather fetch throws, _current_snapshot returns a fresh snapshot and no
\* error; after a weather failure weather = {} and the scores use the neutral
\* stagnation 0.4 and the default forecast stability; after a series failure
\* they use the single-point series (trend "stable").
C14_PartialDataDegradation ==
    (Served /\ req.scan = "ok" /\ (req.series_failed \/ req.weather_failed)) =>
        /\ req.err = None
        /\ IsSome(req.data)
        /\ "stale" \notin DOMAIN Val(req.data)
        /\ Val(req.data).source = FreshSource
        /\ req.series_failed => Val(req.data).trend = SinglePointTrend[2]
        /\ req.weather_failed =>
              /\ Val(req.data).weather = << >>
              /\ \E sd \in Seeds, series \in SeriesAnswers :
                    LET t == IF series.t = "raise" THEN SinglePointTrend
                             ELSE trend_score(PointValuesOf(series.rows))
                    IN  /\ (series.t = "raise") = req.series_failed
                        /\ Val(req.data).trend = t[2]
                        /\ Val(req.data).risk_score \in
                              risk_index(Some(sd.pm25_ug_m3), NeutralStagnation, t[1],
                                         seasonality(month))
                        /\ series.t = "raise" =>
                              Val(req.data).confidence =
                                  confidence_score(sd.age, DefaultCoverage, DefaultStability)

\* Both fetches failed and the snapshot was served fresh.
C14_Witness ==
    /\ req.op = "current" /\ req.scan = "ok"
    /\ req.series_failed /\ req.weather_failed
    /\ req.response.status = 200
    /\ Val(req.data).weather = << >>
    /\ Val(req.data).trend = "stable"
    /\ Val(req.data).source = FreshSource

\* The entries of the cache are the dicts of successful fetches, each with
\* the timeout counted from its fetch.
EntriesAreFresh ==
    \A k \in CITIES :
        IsSome(cache[k]) =>
            /\ "stale" \notin DOMAIN Val(cache[k]).value
            /\ "error" \notin DOMAIN Val(cache[k]).value
            /\ Val(cache[k]).value.source = FreshSource
            /\ IsSome(stored[k])
            /\ Val(cache[k]).value = Val(stored[k]).value
            /\ Val(cache[k]).expires = Val(stored[k]).at + CacheTimeout

ServedStale == Served /\ IsSome(req.data) /\ "stale" \in DOMAIN Val(req.data)

\* A stale snapshot is served only less than the timeout after the successful
\* fetch of its key; a fetch failing later gets the error object.
StaleOnlyWhileLive ==
    /\ ServedStale => (FetchFailed /\ IsSome(req.before))
    /\ (FetchFailed /\ ~IsSome(req.before)) =>
            (~IsSome(req.data) /\ IsSome(req.err)
                /\ DOMAIN Val(req.err) = {"error", "detail", "hint"})

\* An entry changes only by expiring or by the cache.set of a request whose
\* fetch succeeded, which stores the returned dict for CacheTimeout from now;
\* a request whose fetch failed leaves the whole cache as it was.
OnlyFetchWrites ==
    /\ \A k \in CITIES :
          (cache'[k] # cache[k] /\ IsSome(cache'[k])) =>
              /\ req'.op # "none" /\ req'.scan = "ok" /\ req'.city = k
              /\ now' = now
              /\ cache'[k] = Some([value |-> Val(req'.data),
                                   expires |-> now + CacheTimeout])
    /\ (now' = now /\ req'.op # "none" /\ req'.scan = "raise") => cache' = cache

\* C21: the stale-fallback path of _current_snapshot never writes to the
\* cache: only a successful fetch stores an entry, with a timeout of 600 s, so
\* no cached entry carries stale or an error field, failing requests do not
\* extend an entry's lifetime, and a stale snapshot is served only less than
\* 600 s after the successful fetch that produced it; later a failing request
\* gets the structured error.
C21_FallbackNeverWrites ==
    /\ [](EntriesAreFresh /\ StaleOnlyWhileLive)
    /\ [][OnlyFetchWrites]_vars

\* Five minutes after the fetch a failing request was served the stale copy,
\* and the entry still holds the fresh dict and expires ten minutes after the
\* fetch.
C21_Witness ==
    /\ ServedStale /\ now = TickSeconds
    /\ Val(req.data).error = "OpenAQ temporary error HTTP 503"
    /\ IsSome(cache[req.city])
    /\ Val(cache[req.city]).expires = CacheTimeout
    /\ "stale" \notin DOMAIN Val(cache[req.city]).value
    /\ Val(cache[req.city]).value.source = FreshSource

\* At the timeout the entry is gone: the failing request gets the error object,
\* while a city fetched later is still cached.
C21_AfterExpiry ==
    /\ FetchFailed /\ now = CacheTimeout
    /\ IsSome(req.err) /\ cache[req.city] = None
    /\ IsSome(cache[OtherCity(req.city)])

(***************************************************************************)
(* views_api.py: aq_outlook, the simulation loop                           *)
(*                                                                         *)
(* Specification SpecScore: a snapshot is built from upstream answers      *)
(* drawn from wide sets, then aq_outlook simulates on it, one loop         *)
(* iteration per step; the finished run can be repeated on the same        *)
(* snapshot and forecast at another time.                                  *)
(*                                                                         *)
(* The simulated concentration stays on the grid of hundredths: a product  *)
(* is rounded to the nearest grid point, as the float product is rounded   *)
(* to the nearest float.  Floating point is deterministic: within one      *)
(* behaviour every tie of round() falls to the same side (given.tie_up).   *)
(***************************************************************************)
FMul(x, num, den) ==
    LET q == (x * num) \div den
        r == x * num - q * den
    IN  IF 2 * r < den THEN q
        ELSE IF 2 * r > den THEN q + 1
        ELSE IF q % 2 = 0 THEN q ELSE q + 1

\* The entries of "hourly": wind_speed in tenths of a m/s, pressure in hPa.
HourlySamples ==
    { [wind_speed |-> Some(10), pressure |-> Some(1021), temp |-> Some(5)],
      [wind_speed |-> Some(60), pressure |-> Some(1000), temp |-> Some(5)],
      [wind_speed |-> Some(30), pressure |-> Some(1015), temp |-> None],
      [wind_speed |-> None, pressure |-> Some(1015), temp |-> Some(5)],
      [wind_speed |-> Some(10), pressure |-> None, temp |-> Some(5)] }

\* Line 304: the placeholder sample used without a weather client.
NoWeatherSample == [wind_speed |-> None, pressure |-> None, temp |-> None]

\* What ow.onecall answers in aq_outlook: it raises, or w["hourly"].
HourlyAnswers ==
    {[t |-> "raise", hourly |-> << >>]}
        \cup {[t |-> "ok", hourly |-> hs] :
                hs \in UNION {[1..n -> HourlySamples] : n \in 0..MaxHourly}}

NextPmMildOnly(p, h) == FMul(p, 99, 100)

\* Lines 315-323: pm *= factor.
NextPm(p, h) ==
    IF IsSome(h.wind_speed) /\ IsSome(h.pressure)
      THEN IF Val(h.wind_speed) < 15 /\ Val(h.pressure) > 1020 THEN FMul(p, 103, 100)
           ELSE IF Val(h.wind_speed) > 55 THEN FMul(p, 90, 100)
           ELSE FMul(p, 99, 100)
      ELSE FMul(p, 995, 1000)

\* The side a tie of round() falls to.
TieSide(S, up) ==
    IF up THEN CHOOSE x \in S : \A y \in S : y <= x
          ELSE CHOOSE x \in S : \A y \in S : x <= y

\* Lines 325-345: the point appended at iteration i with concentration p.
OutlookPoint(i, p, h, first, mon, up) ==
    LET outs == compute_all(Some(p), h.wind_speed, h.pressure, <<first, p>>, 30 + 5 * i,
                            (7 * Scale) \div 10,
                            IF IsSome(h.wind_speed) THEN (75 * Scale) \div 100
                                                    ELSE (55 * Scale) \div 100,
                            mon)
        out == CHOOSE o \in outs : /\ o.aqi = TieSide({x.aqi : x \in outs}, up)
                                   /\ o.risk_score = TieSide({x.risk_score : x \in outs}, up)
    IN  [t |-> <<mon, i>>,
         pm25 |-> 10 * TieSide(PyRound(p, 10), up),
         aqi |-> out.aqi,
         category |-> out.category,
         risk |-> out.risk_score,
         confidence |-> out.confidence,
         weather |-> [wind_m_s |-> h.wind_speed, pressure_hpa |-> h.pressure, temp_c |-> h.temp]]

\* What pm25_latest_near returns: a negative reading, one between two rows of
\* _PM25_AQI, an ordinary one, one above the top breakpoint; ages in minutes.
ScoreSeeds ==
    { [pm25_ug_m3 |-> r[1], unit |-> "ug/m3", timestamp_utc |-> "T1", age |-> r[2],
       sensor_id |-> 12, location_id |-> 1] :
        r \in {<<-500, 0>>, <<1205, 30>>, <<4260, 30>>, <<60000, 1000>>} }

\* The rows of SeriesAnswers in the provider's order, and in ascending time.
ScoreSeriesAnswers ==
    SeriesAnswers \cup
        { [t |-> "rows", rows |->
              << [value |-> Some(830), pct |-> Some(50), at |-> 1],
                 [value |-> Some(1530), pct |-> Some(100), at |-> 2],
                 [value |-> None, pct |-> Some(100), at |-> 3] >>] }

Months == {3, 4}
HoursArgs == {None, Some(0)}

\* The loop starts (or, on an empty hourly, line 347 is reached at once).
LoopEntry(hs) == IF hs = << >> THEN "returned" ELSE "loop"

InitScore ==
    /\ ow \in BOOLEAN
    /\ month \in Months
    /\ cache = [k \in CITIES |-> None] /\ now = 0
    /\ stored = [k \in CITIES |-> None] /\ req = NoRequest
    /\ SimIdle /\ PickIdle /\ RaceIdle
    /\ AqiIdle /\ RiskIdle /\ HttpIdle /\ ScanIdle

\* Lines 286-307: the snapshot (fresh, or the stale copy of one), hours, the
\* forecast call and the slice hourly[:hours].
OutlookBegin ==
    /\ opc = "idle"
    /\ \E sd \in ScoreSeeds, series \in ScoreSeriesAnswers,
          weather \in WeatherCalls([t |-> "ok"]), stale \in BOOLEAN :
        \E fresh \in SnapshotData("almaty", sd, series, weather) :
          \E f \in (IF ow THEN HourlyAnswers ELSE {NotCalled}),
             h \in HoursArgs, up \in BOOLEAN :
            LET sn == IF stale THEN StaleCopy(fresh, "OpenAQ temporary error HTTP 503")
                               ELSE fresh
                hrs == ClampHours(h)
                hs == IF f.t = "not called" THEN [k \in 1..hrs |-> NoWeatherSample]
                      ELSE IF f.t = "raise" THEN << >>
                      ELSE SubSeq(f.hourly, 1, Min2(Len(f.hourly), hrs))
            IN  /\ given' = Some([seed |-> sd, series |-> series, weather |-> weather,
                                  forecast |-> f, tie_up |-> up])
                /\ outlook_snap' = Some(sn)
                /\ hours_arg' = h
                /\ hours' = hrs
                /\ pm_now' = sn.pm25_ug_m3
                /\ pm_sim' = sn.pm25_ug_m3
                /\ hourly' = hs
                /\ opc' = IF f.t = "raise" THEN "raised" ELSE LoopEntry(hs)
    /\ step' = 0
    /\ results' = << >>
    /\ first_run' = None
    /\ UNCHANGED <<aqiVars, riskVars, httpVars, scanVars, snapVars, pickVars, raceVars>>

\* One iteration of the loop (lines 309-345); after the last one, line 347.
OutlookStep ==
    /\ opc = "loop"
    /\ step < Len(hourly)
    /\ pm_sim' = NextPm(pm_sim, hourly[step + 1])
    /\ results' = Append(results, OutlookPoint(step, pm_sim', hourly[step + 1], pm_now, month,
                                               Val(given).tie_up))
    /\ step' = step + 1
    /\ opc' = IF step + 1 = Len(hourly) THEN "returned" ELSE "loop"
    /\ UNCHANGED <<given, outlook_snap, hours_arg, hours, hourly, pm_now, first_run>>
    /\ UNCHANGED <<aqiVars, riskVars, httpVars, scanVars, snapVars, pickVars, raceVars>>

\* The same request again, at another time: the snapshot and the forecast are
\* the same, datetime.now() is not.
OutlookAgain ==
    /\ opc = "returned"
    /\ first_run = None
    /\ first_run' = Some(results)
    /\ month' \in Months
    /\ pm_sim' = pm_now
    /\ step' = 0
    /\ results' = << >>
    /\ opc' = LoopEntry(hourly)
    /\ UNCHANGED <<given, outlook_snap, hours_arg, hours, hourly, pm_now>>
    /\ UNCHANGED <<ow, cache, now, stored, req>>
    /\ UNCHANGED <<aqiVars, riskVars, httpVars, scanVars, pickVars, raceVars>>

NextScore == OutlookBegin \/ OutlookStep \/ OutlookAgain

SpecScore == InitScore /\ [][NextScore]_vars

InRanges(a, r, c) ==
    /\ 0 <= a /\ a <= 500
    /\ 0 <= r /\ r <= 100
    /\ 0 <= c /\ c <= 100 * Scale

\* C11: every snapshot (fresh or stale) and every outlook point has
\* aqi in [0,500], risk score in [0,100] and confidence in [0,1], for negative
\* and very large concentrations, any weather values and any data age.
C11_ScoresInRange ==
    /\ IsSome(outlook_snap) =>
          InRanges(Val(outlook_snap).aqi, Val(outlook_snap).risk_score,
                   Val(outlook_snap).confidence)
    /\ \A k \in 1..Len(results) :
          InRanges(results[k].aqi, results[k].risk, results[k].confidence)

\* A stale snapshot of a reading above the top breakpoint, of age 1000 minutes,
\* and two points simulated from it.
C11_Witness ==
    /\ IsSome(outlook_snap)
    /\ Val(given).seed.pm25_ug_m3 = 60000
    /\ Val(outlook_snap).source = StaleSource
    /\ Val(outlook_snap).aqi = 500
    /\ Len(results) = 2
    /\ results[2].aqi = 500 /\ results[2].risk > 60

\* The requested `hours`, clamped to [1,72]; 72 when the parameter is absent.
RequestedHours ==
    LET asked == IF IsSome(hours_arg) THEN Val(hours_arg) ELSE 72
    IN  IF asked < 1 THEN 1 ELSE IF asked > 72 THEN 72 ELSE asked

\* C12: aq_outlook returns exactly `hours` points, `hours` being the requested
\* value clamped to [1,72], for every length of the forecast series and also
\* without a weather provider.
C12_ExactlyHours ==
    opc = "returned" => (hours = RequestedHours /\ Len(results) = hours)

\* Supporting C12: the number of points is the smaller of `hours` and the
\* length of the forecast series (`hours` without a weather provider).
C12_AtMostHours ==
    opc = "returned" =>
        /\ hours = RequestedHours
        /\ Len(results) = IF Val(given).forecast.t = "not called" THEN hours
                          ELSE Min2(hours, Len(Val(given).forecast.hourly))

\* The pm25, aqi and risk sequences of a run.
Sequences3(rs) == [k \in 1..Len(rs) |-> <<rs[k].pm25, rs[k].aqi, rs[k].risk>>]

\* C13: two runs of the outlook on the identical snapshot and the identical
\* forecast series give identical pm25, aqi and risk sequences, whatever the
\* time (and month) of each run.
C13_Deterministic ==
    (opc = "returned" /\ IsSome(first_run)) =>
        Sequences3(results) = Sequences3(Val(first_run))

\* Supporting C13: the pm25 and aqi sequences are identical, and so are the
\* risk sequences of two runs in months of the same season.
C13_SameSeason ==
    (opc = "returned" /\ IsSome(first_run)) =>
        /\ Len(results) = Len(Val(first_run))
        /\ \A k \in 1..Len(results) :
              /\ results[k].pm25 = Val(first_run)[k].pm25
              /\ results[k].aqi = Val(first_run)[k].aqi
              /\ results[k].t[1] = Val(first_run)[k].t[1]
                    => results[k].risk = Val(first_run)[k].risk

\* The factor of a weather sample, as a fraction <<num, den>>.
StepFactor(h) ==
    IF IsSome(h.wind_speed) /\ IsSome(h.pressure)
      THEN IF Val(h.wind_speed) < 15 /\ Val(h.pressure) > 1020 THEN <<103, 100>>
           ELSE IF Val(h.wind_speed) > 55 THEN <<90, 100>>
           ELSE <<99, 100>>
      ELSE <<995, 1000>>

\* The scores of step i with concentration p, sample h and the given first
\* concentration: ageMinutes 30 + 5*i, coverage 0.7, stability 0.75 or 0.55.
StepScored(point, i, p, h, first, mon) ==
    /\ <<point.aqi, point.category>> \in aqi_from_pm25(Some(p))
    /\ point.risk \in risk_index(Some(p), stagnation_score(h.wind_speed, h.pressure),
                                 trend_score(<<first, p>>)[1], seasonality(mon))
    /\ point.confidence =
          confidence_score(30 + 5 * i, (70 * Scale) \div 100,
                           IF IsSome(h.wind_speed) THEN (75 * Scale) \div 100
                                                   ELSE (55 * Scale) \div 100)

\* C20: the concentration at step i is the one at step i-1 (the snapshot's
\* pm25 for i = 0) times the one factor of step i's weather sample (1.03, 0.90,
\* 0.99 or 0.995), and the step is scored with ageMinutes = 30 + 5*i, coverage
\* 0.7 and stability 0.75 if wind is known else 0.55.
C20_OneFactorPerStep ==
    [][step' = step + 1 =>
          LET h == hourly[step + 1]
              f == StepFactor(h)
          IN  /\ step = 0 => pm_sim = Val(outlook_snap).pm25_ug_m3
              /\ IsNearest(pm_sim', pm_sim * f[1], f[2])
              /\ Len(results') = step + 1
              /\ SubSeq(results', 1, step) = results
              /\ StepScored(results'[step + 1], step, pm_sim', h, pm_now, month)]_vars

\* 42.6 ug/m3, a calm high-pressure hour (x 1.03), then an hour without a
\* wind reading (x 0.995).
C20_Witness ==
    /\ opc = "returned" /\ step = 2
    /\ pm_now = 4260
    /\ hourly[1] = [wind_speed |-> Some(10), pressure |-> Some(1021), temp |-> Some(5)]
    /\ hourly[2] = [wind_speed |-> None, pressure |-> Some(1015), temp |-> Some(5)]
    /\ pm_sim = 4366
    /\ results[2].pm25 = 4370

\* The points of the rows in ascending order of their timestamps.
Chronological(rows) ==
    Items(SortedByKey([k \in 1..Len(rows) |-> [key |-> rows[k].at, item |-> rows[k]]]))

\* C18: the trend of a snapshot is computed from the chronologically earliest
\* and latest point of the 24h series, whatever the order in which the
\* upstream returned the rows.
C18_ChronologicalTrend ==
    (IsSome(outlook_snap) /\ Val(given).series.t = "rows") =>
        Val(outlook_snap).trend =
            trend_score(PointValuesOf(Chronological(Val(given).series.rows)))[2]

\* Supporting C18: the trend is computed from the first and the last point in
\* the order of the upstream's rows.
C18_ProviderOrder ==
    (IsSome(outlook_snap) /\ Val(given).series.t = "rows") =>
        Val(outlook_snap).trend = trend_score(PointValuesOf(Val(given).series.rows))[2]

(***************************************************************************)
(* Specification SpecPick: _pick_best_pm25_sensor applied to a drawn list  *)
(* of sensors.                                                             *)
(***************************************************************************)
MaxSensors == 2
MaxUtc == 2

\* The sensors of a location_sensors answer: parameter id 2 or another one,
\* a parameter name, a latest value or none, a latest UTC timestamp (0: none).
SensorKinds ==
    [pid : {PM25_PARAMETER_ID, 1}, pname : {"PM2.5", "PM10", ""},
     value : {None, Some(900)}, utc : 0..MaxUtc]

\* The list of the sensors f[1], ..., f[n]; a sensor's id is its place.
SensorList(n, f) ==
    [k \in 1..n |-> [id |-> k, pid |-> f[k].pid, pname |-> f[k].pname,
                     value |-> f[k].value, utc |-> f[k].utc]]

InitPick ==
    /\ \E n \in 0..MaxSensors : \E f \in [1..n -> SensorKinds] : offered = SensorList(n, f)
    /\ picked = None
    /\ SimIdle /\ RaceIdle
    /\ AqiIdle /\ RiskIdle /\ HttpIdle /\ ScanIdle /\ SnapIdle

PickBest ==
    /\ picked = None
    /\ picked' = Some(_pick_best_pm25_sensor(offered))
    /\ UNCHANGED <<offered, aqiVars, riskVars, httpVars, scanVars, snapVars, simVars, raceVars>>

NextPick == PickBest

SpecPick == InitPick /\ [][NextPick]_vars

\* A sensor identifies as PM2.5: parameter id 2, or a name of the synonym set
\* in any letter case.
IdentifiesAsPm25(sn) ==
    sn.pid = 2 \/ sn.pname \in {"pm25", "PM25", "pm2.5", "PM2.5", "pm2_5", "PM2_5"}

\* C15: _pick_best_pm25_sensor returns None iff no sensor identifies as PM2.5;
\* otherwise a PM2.5 candidate with a present latest value whenever a
\* candidate has one, and among the candidates of equal value-presence the one
\* with the greatest latest UTC timestamp.
C15_BestSensor ==
    picked # None =>
        LET res == picked[1]
            cands == {k \in 1..Len(offered) : IdentifiesAsPm25(offered[k])}
        IN  /\ (res = None) <=> (cands = {})
            /\ res # None =>
                  /\ \E k \in cands : offered[k] = Val(res)
                  /\ (\E k \in cands : IsSome(offered[k].value)) => IsSome(Val(res).value)
                  /\ \A k \in cands :
                        IsSome(offered[k].value) = IsSome(Val(res).value)
                            => offered[k].utc <= Val(res).utc

\* Two candidates with equal timestamps, the first one without a value: the
\* second one is returned.
C15_Witness ==
    /\ Len(offered) = 2
    /\ IdentifiesAsPm25(offered[1]) /\ IdentifiesAsPm25(offered[2])
    /\ offered[1].utc = offered[2].utc
    /\ ~IsSome(offered[1].value) /\ IsSome(offered[2].value)
    /\ picked = Some(Some(offered[2]))

(***************************************************************************)
(* Specification SpecKey: _get_json calls, and the except branch of        *)
(* _current_snapshot run on the error a call raised.  The first _get_json  *)
(* call of pm25_latest_near is the one of locations_near, outside any try: *)
(* what it raises reaches line 181 of views_api.py unchanged.              *)
(***************************************************************************)
\* str(e) of the OpenAQError _get_json raised.
MessageOf(e) ==
    CASE e.kind = "missing" -> MissingKeyMessage
      [] e.kind = "temporary" -> "OpenAQ temporary error HTTP 503"
      [] e.kind = "HTTPError" -> "404 Client Error: Not Found for url"
      [] e.kind = "JSONDecodeError" -> "Expecting value: line 1 column 1 (char 0)"
      [] OTHER -> "Connection aborted."

\* Lines 181-193 for a request on `city`, and the response of aq_current.
SnapshotExcept ==
    /\ hpc = "raised"
    /\ \E city \in CITIES :
         LET error == MessageOf(Val(ret).raise)
         IN  \E res \in CurrentSnapshot(city, [t |-> "raise", error |-> error],
                                        NotCalled, NotCalled) :
                req' = [op |-> "current", city |-> city, scan |-> "raise",
                        error |-> error,
                        series_failed |-> FALSE, weather_failed |-> FALSE,
                        forecast_failed |-> FALSE,
                        before |-> LiveBefore(city),
                        data |-> res.data, err |-> res.err,
                        response |-> IF IsSome(res.err)
                                       THEN [status |-> 502, points |-> 0]
                                       ELSE [status |-> 200, points |-> 0]]
    /\ UNCHANGED <<ow, cache, now, month, stored>>
    /\ UNCHANGED <<aqiVars, riskVars, httpVars, scanVars, extVars>>

NextKey == GetJson \/ Attempt \/ SnapshotExcept

SpecKey == InitHttp /\ [][NextKey]_vars

\* C16: with the API key missing, _get_json sends no HTTP request at all and
\* raises at once, and the current-snapshot flow returns the structured error
\* with the missing-key remediation hint.
C16_MissingKeyIsFatal ==
    ~api_key =>
        /\ sent = << >>
        /\ attempt = 0
        /\ hpc \in {"idle", "raised"}
        /\ hpc = "raised" => ret = Some([raise |-> [kind |-> "missing", status |-> 0]])
        /\ req.op # "none" =>
              /\ req.data = None
              /\ IsSome(req.err)
              /\ Val(req.err).error = "OpenAQ unavailable"
              /\ Val(req.err).detail
                    = "OPENAQ_API_KEY is missing (OpenAQ v3 requires an API key)."
              /\ Val(req.err).hint = MissingHint
              /\ req.response.status = 502

C16_Witness ==
    /\ ~api_key
    /\ hpc = "raised" /\ sent = << >>
    /\ req.op = "current" /\ req.response.status = 502
    /\ Val(req.err).hint = MissingHint

\* Supporting C16: in the snapshot flow, every request made without an API key
\* is answered with the structured error and the missing-key hint.
C16_FlowWithoutKey ==
    (~api_key /\ Served) =>
        /\ req.data = None
        /\ IsSome(req.err) /\ Val(req.err).hint = MissingHint
        /\ req.response.status = 502

(***************************************************************************)
(* SpecScan: the extent of the scan                                        *)
(***************************************************************************)
\* The locations the scan may fetch: those with an id among the first
\* max_location_checks of the sorted list.
Scannable ==
    WithId(SubSeq(locations, 1,
                  IF Len(locations) < max_location_checks THEN Len(locations)
                  ELSE max_location_checks))

\* C19: pm25_latest_near fetches the sensors of at most maxChecks locations, in
\* the sorted order, and stops at the first one that yields a present PM2.5
\* value; a location without a qualifying sensor or with an absent best value
\* is skipped and the scan goes on; the call fails only after every scanned
\* location was skipped.
C19_ScanUntilFirstValue ==
    /\ Len(fetched) <= max_location_checks
    /\ Len(fetched) <= Len(Scannable)
    /\ \A k \in 1..Len(fetched) :
          /\ fetched[k].pos = Scannable[k].pos
          /\ k < Len(fetched) => fetched[k].out.t = "skip"
          /\ fetched[k].out.t = "return" => rpc = "returned"
    /\ rpc = "returned" =>
          /\ fetched # << >>
          /\ fetched[Len(fetched)].out.t = "return"
          /\ found = Some([return |-> fetched[Len(fetched)].out.data])
    /\ rpc = "scan" =>
          /\ found = None
          /\ \A k \in 1..Len(fetched) : fetched[k].out.t = "skip"
    /\ (rpc = "raised" /\ provider # << >>) =>
          /\ Len(fetched) = Len(Scannable)
          /\ \A k \in 1..Len(fetched) : fetched[k].out.t = "skip"

\* Three locations: the first has a PM2.5 sensor without a value, the second
\* yields a value, the third is never fetched.
C19_Witness ==
    /\ rpc = "returned"
    /\ Len(locations) = 3
    /\ Len(fetched) = 2
    /\ fetched[1].out.t = "skip" /\ fetched[1].out.reason.why = "no latest value"
    /\ fetched[2].out.t = "return"

(***************************************************************************)
(* Specification SpecRace: concurrent _current_snapshot calls on one cache *)
(* key.  A call is a sequence of steps: the upstream fetch and the scoring *)
(* (local), then cache.set; or, after a failed fetch, cache.get and then   *)
(* the annotation of the copy (local).  The steps of the callers           *)
(* interleave freely; a cache call is one step (the cache backend applies  *)
(* each get and set as a whole, and get returns a value of its own).       *)
(***************************************************************************)
RaceKey == "almaty"

\* What pm25_latest_near returns to the callers: two different readings.
RaceSeeds ==
    { [pm25_ug_m3 |-> r, unit |-> "ug/m3", timestamp_utc |-> "T1", age |-> 30,
       sensor_id |-> 12, location_id |-> 1] : r \in {4260, 1530} }

RaceError == "OpenAQ temporary error HTTP 503"

\* The dicts a fetch of the callers can build (no series, no weather client).
RaceSnapshots ==
    UNION {SnapshotData(RaceKey, sd, [t |-> "raise", rows |-> << >>], NotCalled) :
              sd \in RaceSeeds}

\* Lines 184-188 store nothing: the cache after the fallback.
FallbackCacheStoresCopy(key, copy) ==
    [cache EXCEPT ![key] = Some([value |-> copy, expires |-> now + CacheTimeout])]
FallbackCache(key, copy) == cache

InitRace ==
    /\ SnapIdle /\ RaceIdle
    /\ SimIdle /\ PickIdle
    /\ AqiIdle /\ RiskIdle /\ HttpIdle /\ ScanIdle

\* Lines 90-176: the fetch succeeds and data is built, or it raises.
CallFetch ==
    /\ \E c \in Callers :
          /\ calls[c].pc = "idle"
          /\ \/ \E data \in RaceSnapshots :
                  calls' = [calls EXCEPT ![c] = [pc |-> "set", data |-> data]]
             \/ calls' = [calls EXCEPT ![c] = [pc |-> "except", error |-> RaceError]]
    /\ UNCHANGED <<writes, aqiVars, riskVars, httpVars, scanVars, snapVars, simVars, pickVars>>

\* Lines 178-179: cache.set(cache_key, data, 10 * 60); return data, None.
CallCacheSet ==
    /\ \E c \in Callers :
          /\ calls[c].pc = "set"
          /\ cache' = CacheAfter(RaceKey, [set |-> Some(calls[c].data)])
          /\ stored' = StoredAfter(RaceKey, [set |-> Some(calls[c].data)])
          /\ writes' = [writes EXCEPT ![RaceKey] = @ \cup {calls[c].data}]
          /\ calls' = [calls EXCEPT ![c] = [pc |-> "idle", data |-> Some(calls[c].data),
                                            err |-> None]]
    /\ UNCHANGED <<ow, now, month, req>>
    /\ UNCHANGED <<aqiVars, riskVars, httpVars, scanVars, simVars, pickVars>>

\* Line 182: cached = cache.get(cache_key).
CallCacheGet ==
    /\ \E c \in Callers :
          /\ calls[c].pc = "except"
          /\ calls' = [calls EXCEPT ![c] = [pc |-> "copy", error |-> calls[c].error,
                                            cached |-> CacheGet(RaceKey)]]
    /\ UNCHANGED <<writes, aqiVars, riskVars, httpVars, scanVars, snapVars, simVars, pickVars>>

\* Lines 183-193: the annotated copy, or the error object.
CallFallback ==
    /\ \E c \in Callers :
          /\ calls[c].pc = "copy"
          /\ IF IsSome(calls[c].cached)
               THEN LET copy == StaleCopy(Val(calls[c].cached), calls[c].error)
                    IN  /\ calls' = [calls EXCEPT ![c] = [pc |-> "idle", data |-> Some(copy),
                                                          err |-> None]]
                        /\ cache' = FallbackCache(RaceKey, copy)
               ELSE /\ calls' = [calls EXCEPT ![c] =
                                    [pc |-> "idle", data |-> None,
                                     err |-> Some(ErrorObject(calls[c].error))]]
                    /\ UNCHANGED cache
    /\ UNCHANGED <<ow, now, month, stored, req, writes>>
    /\ UNCHANGED <<aqiVars, riskVars, httpVars, scanVars, simVars, pickVars>>

NextRace == CallFetch \/ CallCacheSet \/ CallCacheGet \/ CallFallback \/ Tick

SpecRace == InitRace /\ [][NextRace]_vars

\* A complete fresh snapshot: every field of one fetch, no stale annotation.
CompleteFresh(v) ==
    /\ v \in RaceSnapshots
    /\ "stale" \notin DOMAIN v /\ "error" \notin DOMAIN v
    /\ v.source = "OpenAQ v3"

\* C17: under any interleaving of concurrent _current_snapshot calls on one
\* key, the cache entry is absent or exactly one complete fresh snapshot
\* written by one successful fetch, the last writer; never a mix of two
\* fetches, never a stale-annotated copy; a call that falls back reads one such
\* complete snapshot.
C17_LastWriterWins ==
    /\ \A k \in CITIES :
          IsSome(cache[k]) =>
              /\ CompleteFresh(Val(cache[k]).value)
              /\ Val(cache[k]).value \in writes[k]
              /\ IsSome(stored[k]) /\ Val(cache[k]).value = Val(stored[k]).value
    /\ \A c \in Callers :
          /\ (calls[c].pc = "copy" /\ IsSome(calls[c].cached)) =>
                (CompleteFresh(Val(calls[c].cached)) /\ Val(calls[c].cached) \in writes[RaceKey])
          /\ (calls[c].pc = "idle" /\ "data" \in DOMAIN calls[c] /\ IsSome(calls[c].data)
                /\ "stale" \in DOMAIN Val(calls[c].data)) =>
                \E w \in writes[RaceKey] :
                    /\ CompleteFresh(w)
                    /\ \A fld \in DOMAIN w \ {"source"} : Val(calls[c].data)[fld] = w[fld]

\* Caller 1 is between its failed fetch and its fallback while caller 2 has
\* overwritten the entry caller 1 read.
C17_Witness ==
    /\ calls[1].pc = "copy" /\ IsSome(calls[1].cached)
    /\ IsSome(cache[RaceKey])
    /\ Val(cache[RaceKey]).value # Val(calls[1].cached)
    /\ Cardinality(writes[RaceKey]) = 2
    /\ calls[2].pc = "idle" /\ "data" \in DOMAIN calls[2]
    /\ calls[2].data = Some(Val(cache[RaceKey]).value)

====
